---------------------------- MODULE Spec2Model ----------------------------
(***************************************************************************)
(* logr: an interactive terminal pager for streamed text.                  *)
(*                                                                         *)
(* The module models                                                       *)
(*   - the highlight engine of src/src/ui.rs (highlight_line and its       *)
(*     helpers), as operators applied to bounded inputs (SpecHL);          *)
(*   - the scroll / follow / dialog state machine of src/src/event.rs and  *)
(*     the run loop of src/src/lib.rs that drives it (Spec);               *)
(*   - a session of dialog keys, typed pattern texts included              *)
(*     (SpecDialog);                                                       *)
(*   - run from its first statement to its return, with the outcomes of    *)
(*     the terminal calls (SpecRun);                                       *)
(*   - the colours of the patterns in the frames ui draws (SpecColor);     *)
(*   - the routing of key events to the dialog or to the main view         *)
(*     (SpecRouting);                                                      *)
(*   - the run loop in a terminal that is never resized (SpecFixedHeight)  *)
(*     and repeated line-down presses in it (SpecLineDown);                *)
(*   - highlight_line with patterns that match the empty string            *)
(*     (SpecHLEmpty);                                                      *)
(*   - run from its entry, the patterns of the command line built one by   *)
(*     one (SpecStartup).                                                  *)
(*                                                                         *)
(* Byte offsets are 0-based as in the source; sequences are 1-based, so    *)
(* the byte range [s, e) of a text t is SubSeq(t, s + 1, e).               *)
(***************************************************************************)
EXTENDS Integers, Sequences, FiniteSets, TLC

VARIABLES
    \* AppState (src/src/lib.rs:54-64)
    patterns, selected, dialog_open, input, pattern_error, ignore_case,
    scroll, follow, wrap,
    \* locals of run (src/src/lib.rs:83-116)
    lines, view_height, redraw, pc,
    \* the rest of args.patterns: what the loop of lib.rs:85-87 has yet to build
    args_rest,
    \* the environment: the terminal's height, the frame this iteration drew
    term_height, frame,
    \* the key event handled last in this drain of the pending keys
    last,
    \* one call of highlight_line: its arguments and its result
    hl_line, hl_patterns, hl_out,
    \* the modes of the terminal (term_init and term_cleanup, lib.rs:120-141)
    terminal,
    \* the pattern rows of the dialog as this iteration drew them
    dialog_rows

app_vars == <<patterns, selected, dialog_open, input, pattern_error,
              ignore_case, scroll, follow, wrap>>
run_vars == <<lines, view_height, redraw, pc, args_rest, term_height, frame, last>>
hl_vars  == <<hl_line, hl_patterns, hl_out>>
env_vars == <<terminal, dialog_rows>>
vars     == <<app_vars, run_vars, hl_vars, env_vars>>

(***************************************************************************)
(* Bounds of the model.                                                    *)
(***************************************************************************)
MaxLen == 5
MaxEsc == 1
MaxPatterns == 2

Min(a, b) == IF a <= b THEN a ELSE b
Max(a, b) == IF a >= b THEN a ELSE b

\* usize::saturating_sub
SatSub(a, b) == IF a >= b THEN a - b ELSE 0

(***************************************************************************)
(* Styles, spans and lines (ratatui Style / Span / Line as ui.rs uses      *)
(* them).                                                                  *)
(***************************************************************************)
Chars == {"a", "b"}
SgrOn == "ESC[1;32;44m"
SgrReset == "ESC[0m"
Escapes == {SgrOn, SgrReset}

DefaultStyle == [fg |-> "None", bg |-> "None", bold |-> FALSE]
SgrStyle == [fg |-> "Green", bg |-> "Blue", bold |-> TRUE]

\* Style::fg: sets the foreground and nothing else
StyleFgWrong(style, color) == [DefaultStyle EXCEPT !.fg = color]
StyleFg(style, color) == [style EXCEPT !.fg = color]

StyledSpan(content, style) == [content |-> content, style |-> style]
DefaultLine == [style |-> DefaultStyle, alignment |-> "None", spans |-> <<>>]

PATTERN_COLORS == <<"Red", "Green", "Blue", "Yellow", "Magenta", "Cyan",
                    "LightRed", "LightGreen", "LightYellow", "LightBlue">>

pattern_color_clamped(index) ==
    PATTERN_COLORS[(IF index < Len(PATTERN_COLORS) THEN index
                    ELSE Len(PATTERN_COLORS) - 1) + 1]
pattern_color(index) == PATTERN_COLORS[(index % Len(PATTERN_COLORS)) + 1]

(***************************************************************************)
(* parse_ansi_line: the escapes of the raw line become the styles of the   *)
(* spans; a span ends where the style changes.  The raw line is a sequence *)
(* of tokens, a character or one SGR escape each.                          *)
(***************************************************************************)
RECURSIVE AnsiSpans(_, _, _, _, _)
AnsiSpans(line, i, style, buf, acc) ==
    LET flushed == IF buf = <<>> THEN acc ELSE Append(acc, StyledSpan(buf, style))
    IN  IF i > Len(line) THEN flushed
        ELSE IF line[i] = SgrOn THEN AnsiSpans(line, i + 1, SgrStyle, <<>>, flushed)
        ELSE IF line[i] = SgrReset THEN AnsiSpans(line, i + 1, DefaultStyle, <<>>, flushed)
        ELSE AnsiSpans(line, i + 1, style, Append(buf, line[i]), acc)

parse_ansi_line(line) ==
    [DefaultLine EXCEPT !.spans = AnsiSpans(line, 1, DefaultStyle, <<>>, <<>>)]

RECURSIVE ConcatContents(_, _)
ConcatContents(spans, i) ==
    IF i > Len(spans) THEN <<>>
    ELSE spans[i].content \o ConcatContents(spans, i + 1)

line_plain_text(line) == ConcatContents(line.spans, 1)

(***************************************************************************)
(* Patterns.  A pattern text is a sequence of characters; "(" alone opens  *)
(* a group that is never closed, which the regex compiler rejects.  Huge   *)
(* stands for a counted repetition whose program fits the compiler's size  *)
(* limit when compiled case-sensitively and exceeds it when the case       *)
(* folding of RegexBuilder::case_insensitive(true) enlarges its classes.   *)
(* The compiled regex is the literal with its case mode.                   *)
(***************************************************************************)
Lower(c) == IF c = "A" THEN "a" ELSE IF c = "B" THEN "b" ELSE c

Huge == "[a-z]{N}"

Unclosed(pattern) == \E i \in 1..Len(pattern) : pattern[i] = "("
TooLarge(pattern, case_sensitive) ==
    ~case_sensitive /\ \E i \in 1..Len(pattern) : pattern[i] = Huge

\* whether RegexBuilder::build returns Ok
CompilesAnything(pattern, case_sensitive) == TRUE
CompilesCaseBlind(pattern, case_sensitive) == ~Unclosed(pattern)
Compiles(pattern, case_sensitive) ==
    ~Unclosed(pattern) /\ ~TooLarge(pattern, case_sensitive)

build_regex(pattern, case_sensitive) ==
    IF Compiles(pattern, case_sensitive)
    THEN [ok |-> TRUE,
          regex |-> [literal |-> pattern, case_insensitive |-> ~case_sensitive]]
    ELSE [ok |-> FALSE,
          err |-> IF Unclosed(pattern) THEN "unclosed group"
                  ELSE "compiled regex exceeds size limit"]

build_pattern(pattern, case_sensitive) ==
    LET r == build_regex(pattern, case_sensitive)
    IN  IF r.ok
        THEN [ok |-> TRUE,
              pattern |-> [pattern |-> pattern,
                           case_sensitive |-> case_sensitive,
                           regex |-> r.regex]]
        ELSE [ok |-> FALSE, err |-> r.err]

\* whether the regex matches the text at byte offset at (0-based)
MatchesAt(regex, text, at) ==
    LET n == Len(regex.literal)
    IN  /\ at + n <= Len(text)
        /\ \A k \in 1..n :
              IF regex.case_insensitive
              THEN Lower(text[at + k]) = Lower(regex.literal[k])
              ELSE text[at + k] = regex.literal[k]

\* Regex::find_iter: the leftmost matches, none overlapping the one before;
\* after an empty match the search moves on by one character.
RECURSIVE find_iter(_, _, _)
find_iter(regex, text, at) ==
    IF at > Len(text) THEN <<>>
    ELSE IF MatchesAt(regex, text, at)
         THEN LET end == at + Len(regex.literal)
              IN  <<[start |-> at, end |-> end]>>
                  \o find_iter(regex, text, IF end = at THEN at + 1 ELSE end)
         ELSE find_iter(regex, text, at + 1)

(***************************************************************************)
(* highlight_line (src/src/ui.rs:177-228).                                 *)
(***************************************************************************)
\* the inner loop, ui.rs:184-190: one range per non-empty match
RECURSIVE MatchRangesWithEmpty(_, _, _)
MatchRangesWithEmpty(mats, i, index) ==
    IF i > Len(mats) THEN <<>>
    ELSE <<[start |-> mats[i].start, end |-> mats[i].end,
            index |-> index, color |-> pattern_color(index)]>>
         \o MatchRangesWithEmpty(mats, i + 1, index)
RECURSIVE MatchRanges(_, _, _)
MatchRanges(mats, i, index) ==
    IF i > Len(mats) THEN <<>>
    ELSE (IF mats[i].start < mats[i].end
          THEN <<[start |-> mats[i].start, end |-> mats[i].end,
                  index |-> index, color |-> pattern_color(index)]>>
          ELSE <<>>)
         \o MatchRanges(mats, i + 1, index)

\* the outer loop, ui.rs:181-191; index is the 0-based position in patterns
RECURSIVE CollectRanges(_, _, _)
CollectRanges(pats, plain, index) ==
    IF index >= Len(pats) THEN <<>>
    ELSE MatchRanges(find_iter(pats[index + 1].regex, plain, 0), 1, index)
         \o CollectRanges(pats, plain, index + 1)

\* the comparator of ui.rs:197
RangeLessLaterFirst(a, b) == a.start < b.start \/ (a.start = b.start /\ a.index > b.index)
RangeLess(a, b) == a.start < b.start \/ (a.start = b.start /\ a.index < b.index)

\* sort_by is a stable sort: an element goes behind the ones not greater
RECURSIVE InsertRange(_, _)
InsertRange(sorted, r) ==
    IF sorted = <<>> THEN <<r>>
    ELSE IF RangeLess(r, Head(sorted)) THEN <<r>> \o sorted
    ELSE <<Head(sorted)>> \o InsertRange(Tail(sorted), r)

RECURSIVE SortRanges(_, _, _)
SortRanges(ranges, i, acc) ==
    IF i > Len(ranges) THEN acc
    ELSE SortRanges(ranges, i + 1, InsertRange(acc, ranges[i]))

\* slice_line_spans (src/src/ui.rs:245-277): the loop over line.spans
RECURSIVE SliceSpansFrom(_, _, _, _, _)
SliceSpansFrom(spans, i, offset, start, end) ==
    IF i > Len(spans) THEN <<>>
    ELSE LET span == spans[i]
             len == Len(span.content)
             span_start == offset
             span_end == offset + len
         IN  IF span_end <= start
             THEN SliceSpansFrom(spans, i + 1, offset + len, start, end)
             ELSE IF span_start >= end THEN <<>>
             ELSE LET slice_start == SatSub(start, span_start)
                      slice_end == Min(end - span_start, len)
                  IN  (IF slice_start < slice_end
                       THEN <<StyledSpan(SubSeq(span.content, slice_start + 1, slice_end),
                                         span.style)>>
                       ELSE <<>>)
                      \o SliceSpansFrom(spans, i + 1, offset + len, start, end)

slice_line_spans(line, start, end) ==
    IF start >= end THEN <<>>
    ELSE SliceSpansFrom(line.spans, 1, 0, start, end)

\* ui.rs:212-215
RECURSIVE Recolor(_, _, _)
Recolor(spans, i, color) ==
    IF i > Len(spans) THEN <<>>
    ELSE <<[spans[i] EXCEPT !.style = StyleFg(spans[i].style, color)]>>
         \o Recolor(spans, i + 1, color)

\* the start of a range once clipped to the cursor, ui.rs:206-208
ClipStartUnclipped(start, cursor) == start
ClipStart(start, cursor) == IF start < cursor THEN cursor ELSE start

\* the sweep, ui.rs:202-217: returns the spans and the final cursor
RECURSIVE Sweep(_, _, _, _, _)
Sweep(base_line, ranges, i, cursor, spans) ==
    IF i > Len(ranges) THEN [spans |-> spans, cursor |-> cursor]
    ELSE LET r == ranges[i]
         IN  IF r.end <= cursor
             THEN Sweep(base_line, ranges, i + 1, cursor, spans)
             ELSE LET start == ClipStart(r.start, cursor)
                      gap == IF cursor < start
                             THEN slice_line_spans(base_line, cursor, start)
                             ELSE <<>>
                      hit == Recolor(slice_line_spans(base_line, start, r.end), 1, r.color)
                  IN  Sweep(base_line, ranges, i + 1, r.end, spans \o gap \o hit)

highlight_line(line, pats) ==
    LET base_line == parse_ansi_line(line)
        plain == line_plain_text(base_line)
        ranges == CollectRanges(pats, plain, 0)
    IN  IF ranges = <<>> THEN base_line
        ELSE LET swept == Sweep(base_line, SortRanges(ranges, 1, <<>>), 1, 0, <<>>)
                 text_len == Len(plain)
                 tail == IF swept.cursor < text_len
                         THEN slice_line_spans(base_line, swept.cursor, text_len)
                         ELSE <<>>
             IN  [style |-> base_line.style,
                  alignment |-> base_line.alignment,
                  spans |-> swept.spans \o tail]


(***************************************************************************)
(* One call of highlight_line on bounded arguments (SpecHL).               *)
(***************************************************************************)
NoLine == [style |-> DefaultStyle, alignment |-> "Unset", spans |-> <<>>]

RECURSIVE SeqsUpTo(_, _)
SeqsUpTo(S, n) ==
    IF n = 0 THEN {<<>>}
    ELSE LET shorter == SeqsUpTo(S, n - 1)
         IN  shorter \cup {Append(s, x) : s \in {t \in shorter : Len(t) = n - 1}, x \in S}

CountIn(line, S) == Cardinality({i \in 1..Len(line) : line[i] \in S})

\* an escape of the line that changes the style of the character behind it
Effective(line, i) ==
    /\ i < Len(line)
    /\ line[i + 1] \in Chars
    /\ LET before == {j \in 1..(i - 1) : line[j] \in Escapes}
           current == IF before = {} THEN SgrReset
                      ELSE line[CHOOSE j \in before : \A k \in before : k <= j]
       IN  line[i] # current

\* raw lines: at most MaxLen characters and at most MaxEsc escapes, each
\* escape one that changes the style (the others decode to the same spans)
RawLines ==
    {l \in SeqsUpTo(Chars \cup Escapes, MaxLen + MaxEsc) :
        /\ CountIn(l, Chars) <= MaxLen
        /\ CountIn(l, Escapes) <= MaxEsc
        /\ \A i \in 1..Len(l) : l[i] \in Escapes => Effective(l, i)}

PatternTexts == {<<"a", "a">>, <<"a", "a", "a">>, <<"a", "b">>}

\* pattern lists as PatternStore builds them, case-sensitive
PatternLists ==
    {[i \in 1..Len(ts) |-> build_pattern(ts[i], TRUE).pattern] :
        ts \in SeqsUpTo(PatternTexts, MaxPatterns)}

HlCall ==
    /\ hl_out = NoLine
    /\ hl_out' = highlight_line(hl_line, hl_patterns)
    /\ UNCHANGED <<hl_line, hl_patterns, app_vars, run_vars, env_vars>>


(***************************************************************************)
(* The view: max_start (src/src/lib.rs:344-350) and the window ui draws    *)
(* (src/src/ui.rs:28-54).                                                  *)
(***************************************************************************)
MaxLines == 6
MaxTermHeight == 6

max_start_unguarded(total_lines, height) == SatSub(total_lines, height)
max_start(total_lines, height) ==
    IF height = 0 THEN 0 ELSE SatSub(total_lines, height)

\* the flag ui.rs:35 reads; nothing in event.rs sets it
filter_only == FALSE

\* whether some pattern matches the plain text of the line (ui.rs:38)
line_matches_patterns(line, pats) ==
    \E i \in 1..Len(pats) :
        find_iter(pats[i].regex, line_plain_text(parse_ansi_line(line)), 0) # <<>>

RECURSIVE SelectLines(_, _, _)
SelectLines(ls, i, pats) ==
    IF i > Len(ls) THEN <<>>
    ELSE (IF line_matches_patterns(ls[i], pats) THEN <<ls[i]>> ELSE <<>>)
         \o SelectLines(ls, i + 1, pats)

\* ui.rs:35-42
filtered_lines(ls, pats) == IF filter_only THEN SelectLines(ls, 1, pats) ELSE ls

\* ui.rs:47-51
window_start_unclamped(is_follow, scroll_pos, max) == scroll_pos
window_start(is_follow, scroll_pos, max) ==
    IF is_follow THEN max ELSE Min(scroll_pos, max)

NoFrame == [drawn |-> FALSE, height |-> 0, total |-> 0, max_start |-> 0,
            start |-> 0, rows |-> 0]

\* ui.rs:44-54: what one draw shows, given the terminal's height at the draw
ui(ls, height) ==
    LET content_height == SatSub(height, 2)
        total_lines == Len(filtered_lines(ls, patterns))
        max == max_start(total_lines, content_height)
        start == window_start(follow, scroll, max)
    IN  [drawn |-> TRUE, height |-> content_height, total |-> total_lines,
         max_start |-> max, start |-> start,
         rows |-> Len(SubSeq(filtered_lines(ls, patterns), start + 1, total_lines))]

\* ui.rs:106-114: one row per pattern, in the colour of its position
RECURSIVE dialog_lines(_, _, _)
dialog_lines(pats, sel, i) ==
    IF i >= Len(pats) THEN <<>>
    ELSE <<[prefix |-> IF sel = i THEN "> " ELSE "  ",
            checkbox |-> IF pats[i + 1].case_sensitive THEN "[x]" ELSE "[ ]",
            text |-> pats[i + 1].pattern,
            fg |-> pattern_color(i)]>>
         \o dialog_lines(pats, sel, i + 1)

\* ui.rs:102-105: the dialog is drawn only while it is open
ui_dialog == IF dialog_open THEN dialog_lines(patterns, selected, 0) ELSE <<>>

(***************************************************************************)
(* Key events (crossterm KeyEvent: a code and a set of modifiers).         *)
(***************************************************************************)
Key(code, modifiers) == [code |-> code, modifiers |-> modifiers]
NoKey == Key("None", {})

\* the codes that are KeyCode::Char(c)
CharCodes == {"q", "p", "w", "c", "k", "j", "u", "d", "g", "G", "a", "b", "A", "(", " "}

CtrlNever(key) == FALSE
Ctrl(key) == "CONTROL" \in key.modifiers
Shift(key) == "SHIFT" \in key.modifiers

\* str::trim().is_empty()
IsBlank(text) == \A i \in 1..Len(text) : text[i] = " "

\* String::clear
clear_nothing(text) == text
clear_to_blank(text) == <<" ">>
clear(text) == <<>>

\* String::pop
PopFirst(text) == IF text = <<>> THEN text ELSE SubSeq(text, 2, Len(text))
Pop(text) == IF text = <<>> THEN text ELSE SubSeq(text, 1, Len(text) - 1)

\* Vec::remove at a 0-based index
RemoveAtFirst(seq, index) == SubSeq(seq, 2, Len(seq))
RemoveAt(seq, index) == SubSeq(seq, 1, index) \o SubSeq(seq, index + 2, Len(seq))

\* Vec::push of a built pattern (event.rs:64)
push_pattern_front(pats, pattern) == <<pattern>> \o pats
push_pattern(pats, pattern) == Append(pats, pattern)

\* event.rs:79-81
select_up(sel) == IF sel > 0 THEN sel - 1 ELSE sel

\* event.rs:84-86
select_down_unguarded(sel, len) == sel + 1
select_down(sel, len) == IF sel < len THEN sel + 1 ELSE sel

\* event.rs:93-94: the selected pattern after a toggle that compiled
toggle_case_flag_only(pattern, case_sensitive, regex) ==
    [pattern EXCEPT !.case_sensitive = case_sensitive]
toggle_case_regex_only(pattern, case_sensitive, regex) ==
    [pattern EXCEPT !.regex = regex]
toggle_case(pattern, case_sensitive, regex) ==
    [pattern EXCEPT !.case_sensitive = case_sensitive, !.regex = regex]

(***************************************************************************)
(* handle_dialog_event (src/src/event.rs:45-127).  exit tells whether the  *)
(* handler returned an EventResult with exit set.                          *)
(***************************************************************************)
handle_dialog_event(key, exit) ==
    LET code == key.code
        len == Len(patterns)
    IN
    IF code = "Esc" THEN
        /\ dialog_open' = FALSE
        /\ input' = clear(input)
        /\ pattern_error' = "None"
        /\ exit = FALSE
        /\ UNCHANGED <<patterns, selected>>
    ELSE IF code = "c" /\ Ctrl(key) THEN
        /\ exit = TRUE
        /\ UNCHANGED <<patterns, selected, dialog_open, input, pattern_error>>
    ELSE IF code = "Enter" THEN
        /\ exit = FALSE
        /\ IF ~IsBlank(input)
           THEN LET built == build_pattern(input, ~ignore_case)
                IN  IF built.ok
                    THEN /\ patterns' = push_pattern(patterns, built.pattern)
                         /\ dialog_open' = FALSE
                         /\ input' = clear(input)
                         /\ pattern_error' = "None"
                         /\ UNCHANGED selected
                    ELSE /\ pattern_error' = "Invalid pattern: " \o built.err
                         /\ UNCHANGED <<patterns, selected, dialog_open, input>>
           ELSE /\ dialog_open' = FALSE
                /\ pattern_error' = "None"
                /\ UNCHANGED <<patterns, selected, input>>
    ELSE IF code = "Up" THEN
        /\ exit = FALSE
        /\ selected' = select_up(selected)
        /\ UNCHANGED <<patterns, dialog_open, input, pattern_error>>
    ELSE IF code = "Down" THEN
        /\ exit = FALSE
        /\ selected' = select_down(selected, len)
        /\ UNCHANGED <<patterns, dialog_open, input, pattern_error>>
    ELSE IF code \in {"Left", "Right"} THEN
        /\ exit = FALSE
        /\ IF selected < len
           THEN LET case_sensitive == ~patterns[selected + 1].case_sensitive
                    built == build_regex(patterns[selected + 1].pattern, case_sensitive)
                IN  IF built.ok
                    THEN /\ patterns' = [patterns EXCEPT ![selected + 1] =
                                           toggle_case(@, case_sensitive, built.regex)]
                         /\ UNCHANGED pattern_error
                    ELSE /\ pattern_error' = "Invalid pattern: " \o built.err
                         /\ UNCHANGED patterns
           ELSE UNCHANGED <<patterns, pattern_error>>
        /\ UNCHANGED <<selected, dialog_open, input>>
    ELSE IF code = "Delete" THEN
        /\ exit = FALSE
        /\ IF selected < len
           THEN LET removed == RemoveAt(patterns, selected)
                    clamped == IF selected > Len(removed) THEN Len(removed) ELSE selected
                IN  /\ patterns' = removed
                    /\ selected' = IF removed = <<>> THEN 0 ELSE clamped
           ELSE UNCHANGED <<patterns, selected>>
        /\ UNCHANGED <<dialog_open, input, pattern_error>>
    ELSE IF code = "Backspace" THEN
        /\ exit = FALSE
        /\ input' = Pop(input)
        /\ selected' = len
        /\ UNCHANGED <<patterns, dialog_open, pattern_error>>
    ELSE IF code \in CharCodes THEN
        /\ exit = FALSE
        /\ IF ~Ctrl(key)
           THEN /\ input' = Append(input, code)
                /\ selected' = len
           ELSE UNCHANGED <<input, selected>>
        /\ UNCHANGED <<patterns, dialog_open, pattern_error>>
    ELSE
        /\ exit = FALSE
        /\ UNCHANGED <<patterns, selected, dialog_open, input, pattern_error>>


(***************************************************************************)
(* The scroll arms of handle_main_event (src/src/event.rs:151-207): the    *)
(* scroll and follow each leaves, given total_lines and view_height.       *)
(***************************************************************************)
View(scroll_pos, is_follow) == [scroll |-> scroll_pos, follow |-> is_follow]

\* event.rs:151-162
line_up_unsnapped(total_lines, height) ==
    IF total_lines > 0
    THEN View(IF scroll > 0 THEN scroll - 1 ELSE scroll, FALSE)
    ELSE View(scroll, follow)
line_up(total_lines, height) ==
    IF total_lines > 0
    THEN LET max == max_start(total_lines, height)
             snapped == IF follow THEN max ELSE scroll
         IN  View(IF snapped > 0 THEN snapped - 1 ELSE snapped,
                  IF follow THEN FALSE ELSE follow)
    ELSE View(scroll, follow)

\* event.rs:163-175
line_down_past_end(total_lines, height) ==
    IF total_lines > 0
    THEN LET max == max_start(total_lines, height)
             snapped == IF follow THEN max ELSE scroll
         IN  IF snapped <= max
             THEN View(snapped + 1, follow)
             ELSE View(snapped, TRUE)
    ELSE View(scroll, follow)
line_down_stops_at_bottom(total_lines, height) ==
    IF total_lines > 0
    THEN LET max == max_start(total_lines, height)
             snapped == IF follow THEN max ELSE scroll
         IN  IF snapped < max
             THEN View(snapped + 1, follow)
             ELSE View(snapped, follow)
    ELSE View(scroll, follow)
line_down(total_lines, height) ==
    IF total_lines > 0
    THEN LET max == max_start(total_lines, height)
             snapped == IF follow THEN max ELSE scroll
         IN  IF snapped < max
             THEN View(snapped + 1, follow)
             ELSE View(snapped, TRUE)
    ELSE View(scroll, follow)

\* event.rs:179 and 190
page_delta_zero(height) == height \div 2
page_delta(height) == Max(1, height \div 2)

\* event.rs:176-186
page_up(total_lines, height) ==
    IF total_lines > 0
    THEN LET max == max_start(total_lines, height)
             delta == page_delta(height)
             snapped == IF follow THEN max ELSE scroll
         IN  View(SatSub(snapped, delta), IF follow THEN FALSE ELSE follow)
    ELSE View(scroll, follow)

\* event.rs:187-199
page_down(total_lines, height) ==
    IF total_lines > 0
    THEN LET max == max_start(total_lines, height)
             delta == page_delta(height)
             snapped == IF follow THEN max ELSE scroll
             moved == Min(snapped + delta, max)
         IN  View(moved, IF moved = max THEN TRUE ELSE follow)
    ELSE View(scroll, follow)

\* event.rs:200-203
jump_top == View(0, FALSE)

\* event.rs:204-207
jump_bottom_stale(total_lines, height) == View(scroll, TRUE)
jump_bottom_to_len(total_lines, height) == View(total_lines, TRUE)
jump_bottom(total_lines, height) == View(max_start(total_lines, height), TRUE)

(***************************************************************************)
(* handle_main_event (src/src/event.rs:129-212): the arms in match order.  *)
(***************************************************************************)
MainArm(key) ==
    LET code == key.code
    IN  IF code = "q" THEN "quit"
        ELSE IF code = "p" THEN "open_dialog"
        ELSE IF code = "w" THEN "toggle_wrap"
        ELSE IF code = "c" /\ Ctrl(key) THEN "quit"
        ELSE IF code \in {"Up", "k"} THEN "line_up"
        ELSE IF code \in {"Down", "j"} THEN "line_down"
        ELSE IF code \in {"PageUp", "u"} /\ Ctrl(key) THEN "page_up"
        ELSE IF code \in {"PageDown", "d"} /\ Ctrl(key) THEN "page_down"
        ELSE IF code \in {"Home", "g"} /\ ~Shift(key) THEN "jump_top"
        ELSE IF code \in {"End", "G"} THEN "jump_bottom"
        ELSE "none"

handle_main_event(total_lines, height, key, exit) ==
    LET arm == MainArm(key)
        view == CASE arm = "line_up" -> line_up(total_lines, height)
                  [] arm = "line_down" -> line_down(total_lines, height)
                  [] arm = "page_up" -> page_up(total_lines, height)
                  [] arm = "page_down" -> page_down(total_lines, height)
                  [] arm = "jump_top" -> jump_top
                  [] arm = "jump_bottom" -> jump_bottom(total_lines, height)
                  [] OTHER -> View(scroll, follow)
    IN  /\ exit = (arm = "quit")
        /\ scroll' = view.scroll
        /\ follow' = view.follow
        /\ wrap' = IF arm = "toggle_wrap" THEN ~wrap ELSE wrap
        /\ IF arm = "open_dialog"
           THEN /\ dialog_open' = TRUE
                /\ input' = clear(input)
                /\ pattern_error' = "None"
                /\ selected' = 0
           ELSE UNCHANGED <<dialog_open, input, pattern_error, selected>>
        /\ UNCHANGED patterns

(***************************************************************************)
(* run (src/src/lib.rs:83-116) and handle_event (src/src/event.rs:12-43).  *)
(* pc is "tick" at the top of the loop, "events" while handle_event drains *)
(* the pending keys, "done" once the loop is left.                         *)
(***************************************************************************)
\* the n-th line the source delivers
Feed(n) ==
    IF n % 2 = 1 THEN <<"b", "a", "a", "a", "b">> ELSE <<SgrOn, "a", SgrReset, "b">>

\* AppState::new (lib.rs:68-80) and the start of run (lib.rs:84-93)
AppInit(arg_patterns, arg_ignore_case) ==
    /\ patterns = arg_patterns
    /\ selected = 0
    /\ dialog_open = FALSE
    /\ input = <<>>
    /\ pattern_error = "None"
    /\ ignore_case = arg_ignore_case
    /\ scroll = 0
    /\ follow = TRUE
    /\ wrap = FALSE
    /\ args_rest = <<>>

\* the terminal before term_init and once term_init has returned Ok
TermUntouched ==
    [raw_mode |-> FALSE, alternate_screen |-> FALSE, restore_attempted |-> FALSE]
TermReady == [TermUntouched EXCEPT !.raw_mode = TRUE, !.alternate_screen = TRUE]

RunInit ==
    /\ terminal = TermReady
    /\ dialog_rows = <<>>
    /\ lines = <<>>
    /\ view_height = 0
    /\ redraw = FALSE
    /\ pc = "tick"
    /\ term_height \in 1..MaxTermHeight
    /\ frame = NoFrame
    /\ last = NoKey

HlIdle ==
    /\ hl_line = <<>>
    /\ hl_patterns = <<>>
    /\ hl_out = NoLine

Init == AppInit(<<>>, FALSE) /\ RunInit /\ HlIdle

\* event.rs:25-35 and lib.rs:97-99: an event that signals exit ends the
\* drain and the loop
after_event_continue(exit) == "events"
after_event(exit) == IF exit THEN "done" ELSE "events"

\* lib.rs:101-105
should_draw_without_dialog(arrived) == redraw \/ arrived
should_draw(arrived) == redraw \/ dialog_open \/ arrived

\* lib.rs:103: Vec::push of the line read
push_line_front(ls, line) == <<line>> \o ls
push_line(ls, line) == Append(ls, line)

\* lib.rs:96 and event.rs:17: the size is read, then the drain starts
TickStart ==
    /\ pc = "tick"
    /\ view_height' = SatSub(term_height, 2)
    /\ redraw' = FALSE
    /\ pc' = "events"
    /\ frame' = NoFrame
    /\ dialog_rows' = <<>>
    /\ last' = NoKey
    /\ UNCHANGED <<app_vars, lines, term_height, hl_vars, terminal, args_rest>>

\* event.rs:24: the handler of an event is chosen on the dialog state that the
\* events before it left
route_to_dialog_as_at_p == dialog_open /\ last # Key("p", {})
route_to_dialog == dialog_open

\* event.rs:18-36: one pending key is read and handled to completion
KeyEvent(key) ==
    /\ pc = "events"
    /\ redraw' = TRUE
    /\ last' = key
    /\ \E exit \in BOOLEAN :
          /\ IF route_to_dialog
             THEN /\ handle_dialog_event(key, exit)
                  /\ UNCHANGED <<scroll, follow, wrap>>
             ELSE handle_main_event(Len(lines), view_height, key, exit)
          /\ pc' = after_event(exit)
    /\ UNCHANGED <<ignore_case, lines, view_height, term_height, frame,
                   hl_vars, env_vars, args_rest>>

\* lib.rs:102-110 once no key is args_rest: a line arrives within TICK_RATE
PollLine ==
    /\ pc = "events"
    /\ Len(lines) < MaxLines
    /\ lines' = push_line(lines, Feed(Len(lines) + 1))
    /\ frame' = IF should_draw(TRUE) THEN ui(lines', term_height) ELSE NoFrame
    /\ dialog_rows' = IF should_draw(TRUE) THEN ui_dialog ELSE <<>>
    /\ pc' = "tick"
    /\ last' = NoKey
    /\ UNCHANGED <<app_vars, view_height, redraw, term_height, hl_vars,
                   terminal, args_rest>>

\* lib.rs:102-110 once no key is args_rest: the wait for a line times out
PollTimeout ==
    /\ pc = "events"
    /\ frame' = IF should_draw(FALSE) THEN ui(lines, term_height) ELSE NoFrame
    /\ dialog_rows' = IF should_draw(FALSE) THEN ui_dialog ELSE <<>>
    /\ pc' = "tick"
    /\ last' = NoKey
    /\ UNCHANGED <<app_vars, lines, view_height, redraw, term_height, hl_vars,
                   terminal, args_rest>>

\* the terminal is resized
Resize ==
    /\ pc \in {"tick", "events"}
    /\ \E h \in 1..MaxTermHeight :
          /\ h # term_height
          /\ term_height' = h
    /\ UNCHANGED <<app_vars, lines, view_height, redraw, pc, frame, last,
                   hl_vars, env_vars, args_rest>>

\* the keys of a session in which no pattern text is typed
MainKeys ==
    {Key(c, {}) : c \in {"q", "p", "w", "k", "j", "u", "d", "g", "Up", "Down",
                         "PageUp", "PageDown", "Home", "End", "Enter", "F1"}}
    \cup {Key(c, {"CONTROL"}) : c \in {"c", "u", "d", "PageUp", "PageDown"}}
    \cup {Key(c, {"SHIFT"}) : c \in {"G", "g"}}

DialogControlKeys ==
    {Key(c, {}) : c \in {"Esc", "Enter", "Up", "Down", "Left", "Right", "Delete",
                         "Backspace", "F1"}}
    \cup {Key("c", {"CONTROL"}), Key("u", {"CONTROL"})}

\* event.rs:18-21: some pending key is read
PressKey ==
    \E key \in (IF dialog_open THEN DialogControlKeys ELSE MainKeys) : KeyEvent(key)

Next ==
    \/ TickStart
    \/ PressKey
    \/ PollLine
    \/ PollTimeout
    \/ Resize

Spec == Init /\ [][Next]_vars

(***************************************************************************)
(* run in a terminal that is never resized: terminal.size() (lib.rs:96)    *)
(* returns the same height in every iteration.                             *)
(***************************************************************************)
NextFixedHeight ==
    \/ TickStart
    \/ PressKey
    \/ PollLine
    \/ PollTimeout

SpecFixedHeight == Init /\ [][NextFixedHeight]_vars

(***************************************************************************)
(* The user scrolled back and now presses line-down only (event.rs:163-175)*)
(* in a terminal that keeps its height; the source is silent until follow  *)
(* is on again and may deliver lines after that.  The start is the top of  *)
(* the loop (lib.rs:95) after an idle iteration, with any number of lines, *)
(* any height and any scroll a session may have left while follow is off.  *)
(***************************************************************************)
InitLineDown ==
    /\ patterns = <<>>
    /\ selected = 0
    /\ dialog_open = FALSE
    /\ input = <<>>
    /\ pattern_error = "None"
    /\ ignore_case = FALSE
    /\ wrap = FALSE
    /\ args_rest = <<>>
    /\ follow = FALSE
    /\ \E n \in 1..MaxLines :
          /\ lines = [i \in 1..n |-> Feed(i)]
          /\ scroll \in 0..(n - 1)
    /\ term_height \in 1..MaxTermHeight
    /\ view_height = SatSub(term_height, 2)
    /\ redraw = FALSE
    /\ pc = "tick"
    /\ frame = NoFrame
    /\ last = NoKey
    /\ terminal = TermReady
    /\ dialog_rows = <<>>
    /\ HlIdle

\* event.rs:163: Down or j is read with the dialog closed
LineDownPress ==
    /\ ~dialog_open
    /\ \E key \in {Key("Down", {}), Key("j", {})} : KeyEvent(key)

\* lib.rs:102-104 while the view follows the newest line
FollowedLine == follow /\ PollLine

NextLineDown ==
    \/ TickStart
    \/ LineDownPress
    \/ PollTimeout
    \/ FollowedLine

\* the loop runs on (lib.rs:95) and the user keeps pressing the key
SpecLineDown ==
    /\ InitLineDown
    /\ [][NextLineDown]_vars
    /\ WF_vars(TickStart)
    /\ SF_vars(LineDownPress)

InitHL ==
    /\ AppInit(<<>>, FALSE)
    /\ RunInit
    /\ term_height = MaxTermHeight
    /\ hl_line \in RawLines
    /\ hl_patterns \in PatternLists
    /\ hl_out = NoLine

NextHL == HlCall

SpecHL == InitHL /\ [][NextHL]_vars

(***************************************************************************)
(* One call of highlight_line with patterns that match the empty string:   *)
(* the empty pattern, which the command line can give (lib.rs:85-87), has  *)
(* an empty match at every offset of the plain text.                       *)
(***************************************************************************)
EmptyMatchTexts == {<<>>, <<"a">>, <<"a", "b">>}

EmptyMatchLists ==
    {[i \in 1..Len(ts) |-> build_pattern(ts[i], TRUE).pattern] :
        ts \in SeqsUpTo(EmptyMatchTexts, MaxPatterns)}

InitHLEmpty ==
    /\ AppInit(<<>>, FALSE)
    /\ RunInit
    /\ term_height = MaxTermHeight
    /\ hl_line \in RawLines
    /\ hl_patterns \in EmptyMatchLists
    /\ hl_out = NoLine

NextHLEmpty == HlCall

SpecHLEmpty == InitHLEmpty /\ [][NextHLEmpty]_vars

(***************************************************************************)
(* A session at the keyboard: run has built the patterns of the command    *)
(* line (lib.rs:84-88), two lines are in the buffer and handle_event       *)
(* (event.rs:12-43) handles the keys pressed, pattern texts included.      *)
(***************************************************************************)
MaxStore == 3

\* the pattern arguments of the command line
ArgLists == {<<>>, <<<<"a">>>>, <<<<Huge>>, <<"a">>>>}

\* lib.rs:84-87: every argument built with case_sensitive = !ignore_case
ArgsCompile(texts, arg_ignore_case) ==
    \A i \in 1..Len(texts) : build_pattern(texts[i], ~arg_ignore_case).ok
StartPatterns(texts, arg_ignore_case) ==
    [i \in 1..Len(texts) |-> build_pattern(texts[i], ~arg_ignore_case).pattern]

\* the texts typed into the input row
TypedTexts == {<<"a">>, <<" ">>, <<" ", "a">>, <<"a", "(">>}
TypedPrefix(text) ==
    \E t \in TypedTexts : Len(text) <= Len(t) /\ SubSeq(t, 1, Len(text)) = text

SessionMainKeys == {Key(c, {}) : c \in {"p", "q", "g", "a"}}

SessionDialogKeys ==
    {Key(c, {}) : c \in {"Esc", "Enter", "Up", "Down", "Left", "Right", "Delete",
                         "Backspace", "F1", "a", "(", " "}}
    \cup {Key("c", {"CONTROL"}), Key("a", {"CONTROL"})}

InitDialog ==
    /\ \E texts \in ArgLists, arg_ignore_case \in BOOLEAN :
          /\ ArgsCompile(texts, arg_ignore_case)
          /\ AppInit(StartPatterns(texts, arg_ignore_case), arg_ignore_case)
    /\ terminal = TermReady
    /\ dialog_rows = <<>>
    /\ lines = <<Feed(1), Feed(2)>>
    /\ term_height = 3
    /\ view_height = 1
    /\ redraw = FALSE
    /\ pc = "events"
    /\ frame = NoFrame
    /\ last = NoKey
    /\ HlIdle

\* event.rs:18-36 for a key of the session; the input stays a typed text and
\* the list within MaxStore patterns
SessionKey ==
    \E key \in (IF dialog_open THEN SessionDialogKeys ELSE SessionMainKeys) :
       /\ (dialog_open /\ key.code \in CharCodes /\ ~Ctrl(key))
             => TypedPrefix(Append(input, key.code))
       /\ (dialog_open /\ key.code = "Enter" /\ ~IsBlank(input)
              /\ build_pattern(input, ~ignore_case).ok)
             => Len(patterns) < MaxStore
       /\ KeyEvent(key)

NextDialog == SessionKey

SpecDialog == InitDialog /\ [][NextDialog]_vars


(***************************************************************************)
(* run from its first statement to its return (src/src/lib.rs:83-116),     *)
(* with term_init (lib.rs:120-131) and term_cleanup (lib.rs:133-141).      *)
(* Every call into the terminal returns Ok or Err.  pc is "term_init"      *)
(* once the patterns are built, "returned_ok" or "returned_err" once run   *)
(* has returned.                                                           *)
(***************************************************************************)
Returned == {"returned_ok", "returned_err"}

\* lib.rs:84-88: the patterns of the command line are built, or the first
\* that fails to compile makes run return its error
InitRun ==
    /\ \E texts \in ArgLists, arg_ignore_case \in BOOLEAN :
          IF ArgsCompile(texts, arg_ignore_case)
          THEN /\ AppInit(StartPatterns(texts, arg_ignore_case), arg_ignore_case)
               /\ pc = "term_init"
          ELSE /\ AppInit(<<>>, arg_ignore_case)
               /\ pc = "returned_err"
    /\ terminal = TermUntouched
    /\ dialog_rows = <<>>
    /\ lines = <<>>
    /\ view_height = 0
    /\ redraw = FALSE
    /\ term_height \in {1, MaxTermHeight}
    /\ frame = NoFrame
    /\ last = NoKey
    /\ HlIdle

\* term_init (lib.rs:120-131), called at lib.rs:90: the first of its calls
\* that fails returns its error; a failed execute! may have written a part
\* of its commands
TermInit ==
    /\ pc = "term_init"
    /\ \E failed \in {"none", "enable_raw_mode", "execute", "Terminal::new"} :
          /\ pc' = IF failed = "none" THEN "tick" ELSE "returned_err"
          /\ IF failed = "enable_raw_mode" THEN terminal' = terminal
             ELSE IF failed = "execute"
             THEN \E entered \in BOOLEAN :
                     terminal' = [terminal EXCEPT !.raw_mode = TRUE,
                                                  !.alternate_screen = entered]
             ELSE terminal' = TermReady
    /\ UNCHANGED <<app_vars, lines, view_height, redraw, term_height, frame,
                   last, hl_vars, dialog_rows, args_rest>>

\* lib.rs:96: terminal.size() returns Err
SizeError ==
    /\ pc = "tick"
    /\ pc' = "returned_err"
    /\ UNCHANGED <<app_vars, lines, view_height, redraw, term_height, frame,
                   last, hl_vars, env_vars, args_rest>>

\* lib.rs:101-110: the frame is due and terminal.draw returns Err
DrawError ==
    /\ pc = "events"
    /\ \E arrived \in BOOLEAN :
          /\ arrived => Len(lines) < MaxLines
          /\ should_draw(arrived)
          /\ lines' = IF arrived THEN push_line(lines, Feed(Len(lines) + 1)) ELSE lines
    /\ pc' = "returned_err"
    /\ last' = NoKey
    /\ UNCHANGED <<app_vars, view_height, redraw, term_height, frame, hl_vars,
                   env_vars, args_rest>>

\* term_cleanup (lib.rs:133-141), called at lib.rs:113 after the loop
TermCleanup ==
    /\ pc = "done"
    /\ \E failed \in {"none", "disable_raw_mode", "execute", "show_cursor"} :
          /\ pc' = IF failed = "none" THEN "returned_ok" ELSE "returned_err"
          /\ terminal' =
                [raw_mode |-> failed = "disable_raw_mode",
                 alternate_screen |-> failed \in {"disable_raw_mode", "execute"},
                 restore_attempted |-> TRUE]
    /\ UNCHANGED <<app_vars, lines, view_height, redraw, term_height, frame,
                   last, hl_vars, dialog_rows, args_rest>>

\* the keys of a run in which no pattern text is typed
RunMainKeys == {Key(c, {}) : c \in {"q", "p", "j"}} \cup {Key("c", {"CONTROL"})}
RunDialogKeys == {Key(c, {}) : c \in {"Esc", "Enter"}} \cup {Key("c", {"CONTROL"})}

\* event.rs:18-21: some pending key is read
RunKey ==
    \E key \in (IF dialog_open THEN RunDialogKeys ELSE RunMainKeys) : KeyEvent(key)

NextRun ==
    \/ TermInit
    \/ TickStart
    \/ SizeError
    \/ RunKey
    \/ PollLine
    \/ PollTimeout
    \/ DrawError
    \/ TermCleanup

SpecRun == InitRun /\ [][NextRun]_vars

(***************************************************************************)
(* run from its entry (src/src/lib.rs:83): the loop of lib.rs:85-87 builds *)
(* the patterns of the command line one by one, AppState::new (lib.rs:88)  *)
(* takes them, and then the terminal is set up and the loop runs as in     *)
(* SpecRun.  pc is "build" until the patterns are built.                   *)
(***************************************************************************)
MaxArgs == 2

\* the pattern arguments: a literal, a pattern that compiles case-sensitively
\* only, and one that never compiles
ArgTexts == {<<"a">>, <<Huge>>, <<"a", "(">>}

\* Args (lib.rs:30-38): the patterns of the command line
CommandLines == SeqsUpTo(ArgTexts, MaxArgs)

\* lib.rs:84: the vector is empty, all of args.patterns is to be built;
\* ignore_case is args.ignore_case, and the other fields are as
\* AppState::new (lib.rs:68-80) sets them
InitStartup ==
    /\ args_rest \in CommandLines
    /\ ignore_case \in BOOLEAN
    /\ patterns = <<>>
    /\ selected = 0
    /\ dialog_open = FALSE
    /\ input = <<>>
    /\ pattern_error = "None"
    /\ scroll = 0
    /\ follow = TRUE
    /\ wrap = FALSE
    /\ pc = "build"
    /\ terminal = TermUntouched
    /\ dialog_rows = <<>>
    /\ lines = <<>>
    /\ view_height = 0
    /\ redraw = FALSE
    /\ term_height = MaxTermHeight
    /\ frame = NoFrame
    /\ last = NoKey
    /\ HlIdle

\* lib.rs:86: the case mode of a pattern of the command line
start_case_sensitive_always(arg_ignore_case) == TRUE
start_case_sensitive(arg_ignore_case) == ~arg_ignore_case

\* lib.rs:85-87, one iteration: the next pattern is built and pushed, or its
\* error returned by the `?`
BuildPattern ==
    /\ pc = "build"
    /\ args_rest # <<>>
    /\ LET built == build_pattern(Head(args_rest), start_case_sensitive(ignore_case))
       IN  IF built.ok
           THEN /\ patterns' = push_pattern(patterns, built.pattern)
                /\ args_rest' = Tail(args_rest)
                /\ pc' = "build"
           ELSE /\ pc' = "returned_err"
                /\ UNCHANGED <<patterns, args_rest>>
    /\ UNCHANGED <<selected, dialog_open, input, pattern_error, ignore_case,
                   scroll, follow, wrap, lines, view_height, redraw, term_height,
                   frame, last, hl_vars, env_vars>>

\* lib.rs:88: the loop is over and AppState::new takes the patterns
NewApp ==
    /\ pc = "build"
    /\ args_rest = <<>>
    /\ pc' = "term_init"
    /\ UNCHANGED <<app_vars, lines, view_height, redraw, term_height, frame,
                   last, hl_vars, env_vars, args_rest>>

NextStartup ==
    \/ BuildPattern
    \/ NewApp
    \/ TermInit
    \/ TickStart
    \/ SizeError
    \/ RunKey
    \/ PollLine
    \/ PollTimeout
    \/ DrawError
    \/ TermCleanup

SpecStartup == InitStartup /\ [][NextStartup]_vars


(***************************************************************************)
(* The colours of the patterns: a dialog over a list of up to MaxRows      *)
(* one-letter patterns, the Delete key, and the draw of ui                 *)
(* (src/src/ui.rs:28-149), which highlights the line of the window and     *)
(* lists the patterns in the dialog.                                       *)
(***************************************************************************)
MaxRows == 12

Letters == <<"a", "b", "c", "d", "e", "f", "g", "h", "i", "j", "k", "l", "m", "n">>

\* the line of the buffer: every letter once
LetterLine == SubSeq(Letters, 1, Min(MaxRows, Len(Letters)))

\* the first n letters, one pattern each, as build_pattern builds them
LetterPatterns(n) == [i \in 1..n |-> build_pattern(<<Letters[i]>>, TRUE).pattern]

InitColor ==
    /\ \E n \in 1..Len(LetterLine) :
          /\ patterns = LetterPatterns(n)
          /\ selected \in 0..n
    /\ dialog_open = TRUE
    /\ input = <<>>
    /\ pattern_error = "None"
    /\ ignore_case = FALSE
    /\ scroll = 0
    /\ follow = TRUE
    /\ wrap = FALSE
    /\ args_rest = <<>>
    /\ terminal = TermReady
    /\ dialog_rows = <<>>
    /\ lines = <<LetterLine>>
    /\ term_height = 3
    /\ view_height = 1
    /\ redraw = FALSE
    /\ pc = "events"
    /\ frame = NoFrame
    /\ last = NoKey
    /\ HlIdle

\* event.rs:102-112: the Delete key
ColorDelete ==
    /\ dialog_open
    /\ KeyEvent(Key("Delete", {}))

\* lib.rs:108-110 and ui.rs:28-149: the frame is drawn: the line of the window
\* is highlighted with the patterns (ui.rs:52-54), the dialog lists them
ColorDraw ==
    /\ pc = "events"
    /\ should_draw(FALSE)
    /\ frame' = ui(lines, term_height)
    /\ dialog_rows' = ui_dialog
    /\ hl_line' = lines[frame'.start + 1]
    /\ hl_patterns' = patterns
    /\ hl_out' = highlight_line(hl_line', patterns)
    /\ pc' = "tick"
    /\ last' = NoKey
    /\ UNCHANGED <<app_vars, lines, view_height, redraw, term_height, terminal,
                   args_rest>>

NextColor ==
    \/ ColorDelete
    \/ ColorDraw
    \/ TickStart

SpecColor == InitColor /\ [][NextColor]_vars


(***************************************************************************)
(* The routing of key events (event.rs:18-36): the same keys are pressed   *)
(* with the dialog closed and open, over three lines in a window of one    *)
(* row, with one pattern; no pattern is added.                             *)
(***************************************************************************)
RoutedChars == {"q", "j", "k", "g", "G", "w", "p"}

RoutingKeys ==
    {Key(c, {}) : c \in (RoutedChars \ {"G"}) \cup {"Esc", "Delete", "Backspace"}}
    \cup {Key("G", {"SHIFT"}), Key("c", {"CONTROL"})}

InitRouting ==
    /\ AppInit(StartPatterns(<<<<"a">>>>, FALSE), FALSE)
    /\ terminal = TermReady
    /\ dialog_rows = <<>>
    /\ lines = <<Feed(1), Feed(2), Feed(3)>>
    /\ term_height = 3
    /\ view_height = 1
    /\ redraw = FALSE
    /\ pc = "tick"
    /\ frame = NoFrame
    /\ last = NoKey
    /\ HlIdle

\* event.rs:18-36 for a key of RoutingKeys; the input holds one character at
\* most
RoutingKey ==
    \E key \in RoutingKeys :
       /\ (dialog_open /\ key.code \in CharCodes /\ ~Ctrl(key)) => input = <<>>
       /\ KeyEvent(key)

NextRouting ==
    \/ TickStart
    \/ RoutingKey
    \/ PollTimeout

SpecRouting == InitRouting /\ [][NextRouting]_vars


(***************************************************************************)
(* Properties of highlight_line, stated on one finished call (SpecHL).     *)
(***************************************************************************)
HlDone == hl_out # NoLine
HlBase == parse_ansi_line(hl_line)
HlPlain == line_plain_text(HlBase)
HlBytes == 0..(Len(HlPlain) - 1)

\* the matches highlight_line collects, as a set
HlRanges ==
    LET ranges == CollectRanges(hl_patterns, HlPlain, 0)
    IN  {ranges[i] : i \in 1..Len(ranges)}

Covers(r, b) == r.start <= b /\ b < r.end
Covering(rs, b) == {r \in rs : Covers(r, b)}

\* the style of every byte of a span list, in byte order
RECURSIVE ByteStyles(_, _)
ByteStyles(spans, i) ==
    IF i > Len(spans) THEN <<>>
    ELSE [k \in 1..Len(spans[i].content) |-> spans[i].style]
         \o ByteStyles(spans, i + 1)

\* the number of the span every byte of a span list lies in, in byte order
RECURSIVE ByteSpans(_, _)
ByteSpans(spans, i) ==
    IF i > Len(spans) THEN <<>>
    ELSE [k \in 1..Len(spans[i].content) |-> i] \o ByteSpans(spans, i + 1)

IsAscending(seq) == \A i \in 1..(Len(seq) - 1) : seq[i] <= seq[i + 1]

LowestIndex(rs) == CHOOSE n \in {r.index : r \in rs} : \A r \in rs : n <= r.index

\* C1: the output spans of highlight_line partition [0, len(plain)) in ascending
\* order, without gap or overlap: laid end to end the spans hold as many bytes
\* as the plain text, byte b of them is byte b of the plain text, so that the
\* concatenation of the span contents is the plain text; for every line and
\* pattern list, also with no match and with overlapping or nested matches.
C1_SpansPartitionPlain ==
    HlDone =>
        LET text == ConcatContents(hl_out.spans, 1)
            owner == ByteSpans(hl_out.spans, 1)
        IN  /\ Len(owner) = Len(HlPlain)
            /\ IsAscending(owner)
            /\ \A b \in HlBytes : text[b + 1] = HlPlain[b + 1]
            /\ text = HlPlain

\* matches of two patterns overlap, one of them nested in a longer one of the
\* other, and the call has returned a partition of more than two spans
C1_Witness ==
    /\ HlDone
    /\ \E r1, r2 \in HlRanges :
          /\ r1.index # r2.index
          /\ r1.start <= r2.start /\ r2.end < r1.end
    /\ Len(hl_out.spans) > 2
    /\ ConcatContents(hl_out.spans, 1) = HlPlain

\* C2: every byte of the plain text that lies inside matches of two or more
\* patterns has the palette colour of the lowest-index pattern covering it,
\* also when a higher-index pattern's match started earlier.
C2_LowestIndexWinsEveryByte ==
    HlDone =>
        LET rs == HlRanges
            out == ByteStyles(hl_out.spans, 1)
        IN  \A b \in HlBytes :
                Cardinality({r.index : r \in Covering(rs, b)}) >= 2 =>
                    out[b + 1].fg = pattern_color(LowestIndex(Covering(rs, b)))

\* C3: when matches of two patterns start at the same offset (and no match of
\* a third pattern reaches into them), the region they share has the
\* lower-index pattern's colour, the remainder of the longer match, when it is
\* the higher-index pattern's, has the higher-index colour, and no byte of
\* them is emitted twice.
C3_SameStartLowerIndexFirst ==
    HlDone =>
        LET rs == HlRanges
            out == ByteStyles(hl_out.spans, 1)
        IN  \A r1, r2 \in rs :
                ( /\ r1.start = r2.start
                  /\ r1.index < r2.index
                  /\ \A r3 \in rs :
                        \/ r3.index \in {r1.index, r2.index}
                        \/ r3.end <= r1.start
                        \/ r3.start >= Max(r1.end, r2.end) )
                => /\ Len(out) = Len(HlPlain)
                   /\ \A b \in r1.start..(Min(r1.end, r2.end) - 1) :
                         out[b + 1].fg = pattern_color(r1.index)
                   /\ \A b \in r1.end..(r2.end - 1) :
                         out[b + 1].fg = pattern_color(r2.index)

\* patterns ["aa", "aaa"] on "baaab": bytes [1,3) have colour 0, byte 3 colour 1
C3_Witness ==
    /\ HlDone
    /\ hl_line = <<"b", "a", "a", "a", "b">>
    /\ Len(hl_patterns) = 2
    /\ hl_patterns[1].pattern = <<"a", "a">>
    /\ hl_patterns[2].pattern = <<"a", "a", "a">>
    /\ LET fg == [b \in 1..5 |-> ByteStyles(hl_out.spans, 1)[b].fg]
       IN  fg = <<"None", pattern_color(0), pattern_color(0), pattern_color(1), "None">>

\* C4: highlight_line changes only the foreground colour of matched bytes:
\* a byte inside a match keeps the background and the bold attribute of its
\* base span, a byte outside all matches keeps the whole style of its base
\* span, and the line's own style and alignment are the base line's.
C4_OnlyForegroundChanges ==
    HlDone =>
        LET rs == HlRanges
            out == ByteStyles(hl_out.spans, 1)
            base == ByteStyles(HlBase.spans, 1)
        IN  /\ hl_out.style = HlBase.style
            /\ hl_out.alignment = HlBase.alignment
            /\ Len(out) = Len(base)
            /\ \A b \in HlBytes :
                  /\ out[b + 1].bg = base[b + 1].bg
                  /\ out[b + 1].bold = base[b + 1].bold
                  /\ Covering(rs, b) = {} => out[b + 1] = base[b + 1]

\* a matched byte of a bold, green-on-blue base span is recoloured and is
\* still bold on blue, next to an unmatched byte that kept the base style
C4_Witness ==
    /\ HlDone
    /\ LET rs == HlRanges
           out == ByteStyles(hl_out.spans, 1)
           base == ByteStyles(HlBase.spans, 1)
       IN  \E b, c \in HlBytes :
              /\ Covering(rs, b) # {}
              /\ base[b + 1] = SgrStyle
              /\ out[b + 1] = [SgrStyle EXCEPT !.fg = "Red"]
              /\ Covering(rs, c) = {}
              /\ out[c + 1] = SgrStyle

(***************************************************************************)
(* Properties of the view (Spec).                                          *)
(***************************************************************************)
\* this step handles one key event of main mode: handle_event read it with
\* the dialog closed, and the key is last'
MainKeyStep ==
    /\ pc = "events"
    /\ pc' \in {"events", "done"}
    /\ term_height' = term_height
    /\ ~dialog_open

\* a key event of main mode has just been handled
AfterMainKey == pc = "events" /\ last # NoKey /\ ~dialog_open

TotalLines == Len(lines)
CurrentMaxStart == max_start(TotalLines, view_height)

\* C5: max_start(total, height) is 0 when total = 0, 0 when height = 0, and
\* otherwise max(0, total - height), never below 0; stated on the max_start
\* every draw computes from the total and the height it shows.
C5_MaxStartValue ==
    frame.drawn =>
        /\ frame.max_start >= 0
        /\ frame.total = 0 => frame.max_start = 0
        /\ frame.height = 0 => frame.max_start = 0
        /\ (frame.total > 0 /\ frame.height > 0) =>
              frame.max_start = Max(0, frame.total - frame.height)

\* a draw of fewer lines than the window is high, where total - height < 0
C5_Witness ==
    /\ frame.drawn
    /\ 0 < frame.total /\ frame.total < frame.height
    /\ frame.max_start = 0

\* C6: every frame drawn starts at max_start(total, height) when follow is
\* true and at min(scroll, max_start(total, height)) otherwise; the start is
\* never beyond the total, so that lines[start..] is in bounds; and while
\* follow is true the newest line is in lines[start..] and, in a window of at
\* least one row, among its first height lines.
C6_EffectiveStart ==
    frame.drawn =>
        LET max == IF frame.height = 0 THEN 0 ELSE Max(0, frame.total - frame.height)
        IN  /\ frame.total = TotalLines
            /\ frame.start = IF follow THEN max ELSE Min(scroll, max)
            /\ 0 <= frame.start /\ frame.start <= frame.total
            /\ frame.rows = frame.total - frame.start
            /\ (follow /\ frame.total > 0) =>
                  /\ frame.start <= frame.total - 1
                  /\ frame.height > 0 => frame.total - 1 < frame.start + frame.height

\* a line arrived with no key pressed, follow on and more lines than rows: the
\* frame drawn for it ends with the new line
C6_Witness ==
    /\ frame.drawn
    /\ ~redraw /\ ~dialog_open
    /\ follow
    /\ frame.height > 0
    /\ frame.total > frame.height
    /\ frame.start = frame.total - frame.height
    /\ scroll # frame.start

\* C7: with total > 0 and follow true, whatever scroll holds, one line-up key
\* (Up or k) sets follow to false and scroll to
\* max_start(total, height).saturating_sub(1).
C7_LineUpLeavesFollow ==
    [][(MainKeyStep /\ last'.code \in {"Up", "k"} /\ TotalLines > 0 /\ follow)
         => /\ follow' = FALSE
            /\ scroll' = Max(0, CurrentMaxStart - 1)]_vars

\* Up or k was handled and left follow off, one line above the bottom
C7_Witness ==
    /\ AfterMainKey
    /\ last.code \in {"Up", "k"}
    /\ TotalLines > 0
    /\ CurrentMaxStart > 1
    /\ ~follow
    /\ scroll = CurrentMaxStart - 1

\* C8: with total > 0, a line-down key (Down or j) pressed when scroll is at
\* max_start(total, height), or when follow is true, leaves scroll equal to
\* max_start and follow true; and no line-down key takes a scroll that is at
\* most max_start beyond max_start.
C8_LineDownAtBottom ==
    [][(MainKeyStep /\ last'.code \in {"Down", "j"} /\ TotalLines > 0)
         => /\ (follow \/ scroll = CurrentMaxStart) =>
                  (scroll' = CurrentMaxStart /\ follow' = TRUE)
            /\ (follow \/ scroll <= CurrentMaxStart) => scroll' <= CurrentMaxStart]_vars

\* Down or j was handled and the view is at the bottom, following
C8_Witness ==
    /\ AfterMainKey
    /\ last.code \in {"Down", "j"}
    /\ TotalLines > 0
    /\ CurrentMaxStart > 0
    /\ follow
    /\ scroll = CurrentMaxStart

\* C9: after any line-down or page-down key (total > 0) that leaves scroll
\* equal to max_start(total, height), follow is true.
C9_FollowWheneverBottomReached ==
    [][(/\ MainKeyStep
        /\ MainArm(last') \in {"line_down", "page_down"}
        /\ TotalLines > 0
        /\ scroll' = CurrentMaxStart)
         => follow' = TRUE]_vars

\* C10: half-page scrolling (Ctrl-U, Ctrl-D, total > 0) moves by
\* delta = max(1, height / 2).  Page-up sets follow to false and scroll to
\* max(0, s - delta), s being max_start if follow was on and scroll otherwise.
\* Page-down sets scroll to min(s + delta, max_start) and follow to true
\* exactly when that is max_start.  Page-up never takes scroll below 0,
\* page-down never above max_start, and page-up leaves a scroll that was at
\* most max_start at most max_start.
C10_HalfPageScroll ==
    [][(MainKeyStep /\ Ctrl(last') /\ last'.code \in {"u", "d"} /\ TotalLines > 0)
         => LET max == CurrentMaxStart
                half == view_height \div 2
                delta == IF half >= 1 THEN half ELSE 1
                s == IF follow THEN max ELSE scroll
            IN  IF last'.code = "u"
                THEN /\ follow' = FALSE
                     /\ scroll' = Max(0, s - delta)
                     /\ scroll' >= 0
                     /\ s <= max => scroll' <= max
                ELSE /\ scroll' = Min(s + delta, max)
                     /\ follow' = (scroll' = max)
                     /\ scroll' >= 0
                     /\ scroll' <= max]_vars

\* Ctrl-U was handled in a window of four rows or more and left the view half
\* a window (two lines or more) above the bottom
C10_Witness ==
    /\ AfterMainKey
    /\ last = Key("u", {"CONTROL"})
    /\ view_height >= 4
    /\ TotalLines > 0
    /\ ~follow
    /\ CurrentMaxStart >= 2
    /\ scroll = CurrentMaxStart - view_height \div 2


\* C11: in main mode, with total > 0, PageUp pressed without any modifier
\* leaves the scroll and follow that Ctrl-U leaves in the same state, and
\* PageDown without any modifier those that Ctrl-D leaves.
C11_PlainPageKeysScroll ==
    [][(/\ MainKeyStep
        /\ last' \in {Key("PageUp", {}), Key("PageDown", {})}
        /\ TotalLines > 0)
         => LET view == IF last'.code = "PageUp"
                        THEN page_up(TotalLines, view_height)
                        ELSE page_down(TotalLines, view_height)
            IN  /\ scroll' = view.scroll
                /\ follow' = view.follow]_vars

\* C12: jump_top (Home, or g without Shift) sets follow to false and scroll
\* to 0; jump_bottom (End or G) sets follow to true and scroll to
\* max_start(total, height); whatever scroll and follow held before.
C12_JumpTopAndBottom ==
    [][/\ (MainKeyStep /\ last' \in {Key("Home", {}), Key("g", {})})
           => (follow' = FALSE /\ scroll' = 0)
       /\ (MainKeyStep /\ last'.code \in {"End", "G"})
           => (follow' = TRUE /\ scroll' = CurrentMaxStart)]_vars

\* End or G was handled with more lines than rows: the view follows and the
\* stored scroll is the bottom
C12_Witness ==
    /\ AfterMainKey
    /\ last.code \in {"End", "G"}
    /\ CurrentMaxStart >= 2
    /\ follow
    /\ scroll = CurrentMaxStart

\* C13: when total = 0 every operation of the view (line_up, line_down,
\* page_up, page_down, jump_top, jump_bottom) leaves scroll and follow as they
\* were.
C13_NoOpWithoutLines ==
    [][(/\ MainKeyStep
        /\ TotalLines = 0
        /\ MainArm(last') \in {"line_up", "line_down", "page_up", "page_down",
                               "jump_top", "jump_bottom"})
         => (scroll' = scroll /\ follow' = follow)]_vars

(***************************************************************************)
(* Properties of the pattern dialog (SpecDialog).                          *)
(***************************************************************************)
\* this step handles one key event with the dialog open; the key is last'
DialogKeyStep ==
    /\ pc = "events"
    /\ pc' \in {"events", "done"}
    /\ dialog_open

\* a key event has just been handled and left the dialog open
AfterDialogKey == pc = "events" /\ last # NoKey /\ dialog_open

NoError == "None"
UnclosedError == "Invalid pattern: unclosed group"
TooLargeError == "Invalid pattern: compiled regex exceeds size limit"

\* C14: in the open dialog, Enter with a non-blank input that compiles appends
\* exactly one pattern at the end of the list, its text the input and its
\* case_sensitive = !ignore_case, leaves the patterns there were in their
\* order, closes the dialog, empties the input and clears the error.
C14_EnterAddsPattern ==
    [][(/\ DialogKeyStep
        /\ last'.code = "Enter"
        /\ ~IsBlank(input)
        /\ ~Unclosed(input)
        /\ ~TooLarge(input, ~ignore_case))
         => LET n == Len(patterns)
            IN  /\ Len(patterns') = n + 1
                /\ SubSeq(patterns', 1, n) = patterns
                /\ patterns'[n + 1].pattern = input
                /\ patterns'[n + 1].case_sensitive = ~ignore_case
                /\ dialog_open' = FALSE
                /\ input' = <<>>
                /\ pattern_error' = NoError]_vars

\* Enter closed the dialog on a list of three patterns, one more than any
\* command line gives: the third is a typed text, kept as typed
C14_Witness ==
    /\ pc = "events"
    /\ last.code = "Enter"
    /\ ~dialog_open
    /\ Len(patterns) = 3
    /\ patterns[1].pattern = <<Huge>>
    /\ patterns[3].pattern = <<" ", "a">>
    /\ input = <<>>
    /\ pattern_error = NoError

\* C15: in the open dialog, Enter with a non-blank input that fails to compile
\* leaves the dialog open, the pattern list and the input as they were, sets
\* the error to a message and does not signal exit.
C15_EnterInvalidKeepsDialog ==
    [][(/\ DialogKeyStep
        /\ last'.code = "Enter"
        /\ ~IsBlank(input)
        /\ (Unclosed(input) \/ TooLarge(input, ~ignore_case)))
         => /\ dialog_open' = TRUE
            /\ patterns' = patterns
            /\ input' = input
            /\ pattern_error' # NoError
            /\ pc' = "events"]_vars

\* Enter was pressed on an unclosed group: the dialog is open on the same
\* input, with the error, and the patterns of the command line
C15_Witness ==
    /\ AfterDialogKey
    /\ last.code = "Enter"
    /\ input = <<"a", "(">>
    /\ pattern_error = UnclosedError
    /\ Len(patterns) = 2

\* C16: in every state reached by main-mode and dialog key events,
\* 0 <= selected <= patterns.len(): Up never goes below 0, Down never above
\* patterns.len(), Delete never leaves selected past the new length.
C16_SelectedInRange ==
    /\ 0 <= selected
    /\ selected <= Len(patterns)

\* Delete was handled and left the selection on the input row of a list that
\* still holds patterns
C16_Witness ==
    /\ AfterDialogKey
    /\ last.code = "Delete"
    /\ Len(patterns) >= 1
    /\ selected = Len(patterns)

\* C17: in every state each pattern's matcher is the compilation of that
\* pattern's text with its case_sensitive flag, and that compilation succeeds.
C17_MatcherIsCompilation ==
    \A i \in 1..Len(patterns) :
        LET built == build_regex(patterns[i].pattern, patterns[i].case_sensitive)
        IN  /\ built.ok
            /\ patterns[i].regex = built.regex
            /\ patterns[i].regex.literal = patterns[i].pattern
            /\ patterns[i].regex.case_insensitive = ~patterns[i].case_sensitive

\* a toggle has failed on one pattern (its error is shown) and a toggle has
\* succeeded on another, whose flag is no longer the one it was added with
C17_Witness ==
    /\ AfterDialogKey
    /\ pattern_error = TooLargeError
    /\ \E i \in 1..Len(patterns) : patterns[i].pattern = <<Huge>>
    /\ \E i \in 1..Len(patterns) :
          /\ patterns[i].pattern # <<Huge>>
          /\ patterns[i].case_sensitive = ignore_case

\* C18: in the open dialog with selected < patterns.len(), a Left or Right key
\* whose recompilation succeeds flips case_sensitive of the selected pattern
\* and replaces its matcher by the one compiled for the same text with the
\* flipped flag (a case-sensitive "a" that did not match "A" matches it
\* afterwards); the pattern's text, every other pattern, the order of the
\* list, selected and input are unchanged.
C18_ToggleFlipsSelected ==
    [][(/\ DialogKeyStep
        /\ last'.code \in {"Left", "Right"}
        /\ selected < Len(patterns)
        /\ ~TooLarge(patterns[selected + 1].pattern,
                     ~patterns[selected + 1].case_sensitive))
         => LET old == patterns[selected + 1]
                new == patterns'[selected + 1]
            IN  /\ Len(patterns') = Len(patterns)
                /\ new.pattern = old.pattern
                /\ new.case_sensitive = ~old.case_sensitive
                /\ new.regex = [literal |-> old.pattern,
                                case_insensitive |-> old.case_sensitive]
                /\ (old.pattern = <<"a">> /\ old.case_sensitive)
                      => /\ ~MatchesAt(old.regex, <<"A">>, 0)
                         /\ MatchesAt(new.regex, <<"A">>, 0)
                /\ \A i \in 1..Len(patterns) :
                      i # selected + 1 => patterns'[i] = patterns[i]
                /\ selected' = selected
                /\ input' = input]_vars

\* in a case-sensitive session Left or Right was handled on the second of
\* two patterns "a", which now matches "A" while the first does not
C18_Witness ==
    /\ AfterDialogKey
    /\ last.code \in {"Left", "Right"}
    /\ ~ignore_case
    /\ Len(patterns) >= 2
    /\ selected = 1
    /\ patterns[1].pattern = <<"a">> /\ patterns[1].case_sensitive
    /\ patterns[2].pattern = <<"a">> /\ ~patterns[2].case_sensitive
    /\ ~MatchesAt(patterns[1].regex, <<"A">>, 0)
    /\ MatchesAt(patterns[2].regex, <<"A">>, 0)

\* C19: if the recompilation of a case toggle fails, the selected pattern
\* keeps its text, case_sensitive flag and matcher, no other pattern
\* changes, the error is set to the failure message and the dialog stays
\* open.
C19_FailedToggleKeepsPattern ==
    [][(/\ DialogKeyStep
        /\ last'.code \in {"Left", "Right"}
        /\ selected < Len(patterns)
        /\ TooLarge(patterns[selected + 1].pattern,
                    ~patterns[selected + 1].case_sensitive))
         => /\ patterns' = patterns
            /\ pattern_error' = TooLargeError
            /\ dialog_open' = TRUE
            /\ selected' = selected]_vars

\* Left or Right was handled on the pattern that compiles only
\* case-sensitively: it is still case-sensitive and the error is shown
C19_Witness ==
    /\ AfterDialogKey
    /\ last.code \in {"Left", "Right"}
    /\ selected < Len(patterns)
    /\ patterns[selected + 1].pattern = <<Huge>>
    /\ patterns[selected + 1].case_sensitive
    /\ pattern_error = TooLargeError

\* C20: in the open dialog with selected < patterns.len(), Delete removes the
\* pattern at index selected and keeps the others in their order; afterwards
\* selected <= the new length, and selected = 0 if the list became empty.
\* With selected = patterns.len() (the input row) Delete changes nothing.
C20_DeleteRemovesSelected ==
    [][(DialogKeyStep /\ last'.code = "Delete")
         => IF selected < Len(patterns)
            THEN /\ Len(patterns') = Len(patterns) - 1
                 /\ \A i \in 1..Len(patterns') :
                       patterns'[i] = IF i <= selected THEN patterns[i]
                                      ELSE patterns[i + 1]
                 /\ selected' <= Len(patterns')
                 /\ patterns' = <<>> => selected' = 0
                 /\ UNCHANGED <<dialog_open, input, pattern_error>>
            ELSE UNCHANGED app_vars]_vars

\* Delete was handled on the middle one of three patterns: the first and the
\* typed third are left, in that order
C20_Witness ==
    /\ AfterDialogKey
    /\ last.code = "Delete"
    /\ selected = 1
    /\ Len(patterns) = 2
    /\ patterns[1].pattern = <<Huge>>
    /\ patterns[2].pattern = <<" ", "a">>

\* C21: in the open dialog, Backspace removes the last character of input
\* (none if input is empty) and a character key without Control appends its
\* character; both set selected to patterns.len() (the input row) and leave
\* the pattern list unchanged.
C21_EditingInput ==
    [][/\ (DialogKeyStep /\ last'.code = "Backspace")
           => /\ input' = IF input = <<>> THEN <<>>
                           ELSE SubSeq(input, 1, Len(input) - 1)
              /\ selected' = Len(patterns)
              /\ patterns' = patterns
       /\ (DialogKeyStep /\ last'.code \in CharCodes /\ last'.modifiers = {})
           => /\ input' = input \o <<last'.code>>
              /\ selected' = Len(patterns)
              /\ patterns' = patterns]_vars

\* Backspace was handled on the input "a(": "a" is left and the selection is
\* on the input row behind two patterns
C21_Witness ==
    /\ AfterDialogKey
    /\ last.code = "Backspace"
    /\ input = <<"a">>
    /\ pattern_error = UnclosedError
    /\ Len(patterns) = 2
    /\ selected = 2

\* C22: the key p in main mode yields dialog_open = true, an empty input, no
\* error and selected = 0, whatever input, error and selected an earlier
\* dialog session left, and leaves the pattern list, scroll and follow
\* unchanged.
C22_OpenDialogResets ==
    [][(/\ pc = "events"
        /\ pc' = "events"
        /\ ~dialog_open
        /\ last'.code = "p")
         => /\ dialog_open' = TRUE
            /\ input' = <<>>
            /\ pattern_error' = NoError
            /\ selected' = 0
            /\ UNCHANGED <<patterns, scroll, follow>>]_vars

\* p was handled after a session that added a third pattern and after the
\* view left follow mode: the dialog is open on its first row, input empty
C22_Witness ==
    /\ AfterDialogKey
    /\ last.code = "p"
    /\ input = <<>>
    /\ pattern_error = NoError
    /\ selected = 0
    /\ Len(patterns) = 3
    /\ ~follow

\* C23: in the open dialog, Escape closes the dialog, empties the input and
\* clears the error, and leaves the pattern list unchanged, also when the
\* input is a valid non-blank pattern.
C23_EscapeCloses ==
    [][(DialogKeyStep /\ last'.code = "Esc")
         => /\ dialog_open' = FALSE
            /\ input' = <<>>
            /\ pattern_error' = NoError
            /\ patterns' = patterns
            /\ pc' = "events"]_vars

\* Escape was handled and closed the dialog on the patterns of the command
\* line
C23_Witness ==
    /\ pc = "events"
    /\ last.code = "Esc"
    /\ ~dialog_open
    /\ input = <<>>
    /\ pattern_error = NoError
    /\ Len(patterns) = 2

(***************************************************************************)
(* Properties of run (SpecRun, Spec).                                      *)
(***************************************************************************)
\* C24: on every path on which run returns after the terminal was put in raw
\* mode (normal quit, an error of the size query, of drawing, or of a
\* partially failed term_init), the restoration of the terminal has been
\* attempted.
C24_RestoreOnEveryExit ==
    (pc \in Returned /\ terminal.raw_mode) => terminal.restore_attempted

\* this step handles one key event: handle_event read it, and it is last'
KeyStep ==
    /\ pc = "events"
    /\ pc' \in {"events", "done"}
    /\ term_height' = term_height

ExitKey(key, open) ==
    \/ key = Key("c", {"CONTROL"})
    \/ ~open /\ key.code = "q"

\* C25: the key events of a tick are handled one at a time; as soon as one
\* signals exit (q or Ctrl-C in main mode, Ctrl-C in the dialog) the loop is
\* left: that step polls no line and renders nothing, and no later step
\* handles an event, polls the line source or renders.
C25_ExitEndsLoop ==
    [][/\ (KeyStep /\ ExitKey(last', dialog_open))
           => /\ pc' = "done"
              /\ lines' = lines
              /\ frame' = NoFrame
       /\ (KeyStep /\ ~ExitKey(last', dialog_open)) => pc' = "events"
       /\ pc = "done" => UNCHANGED vars]_vars

\* Ctrl-C was handled by the open dialog with lines in the buffer: the loop
\* is left and no frame was drawn
C25_Witness ==
    /\ pc = "done"
    /\ last = Key("c", {"CONTROL"})
    /\ dialog_open
    /\ Len(lines) >= 2
    /\ frame = NoFrame

\* C26: in each loop iteration that does not exit, the window is rendered if
\* and only if a key event was handled in that iteration, or the dialog is
\* open, or a new line arrived in that iteration.
C26_RenderWhenDue ==
    [][(pc = "events" /\ pc' = "tick")
         => (frame'.drawn <=> (last # NoKey \/ dialog_open \/ lines' # lines))]_vars

\* an iteration without a key and without any line ever arrived ended with a
\* frame drawn, because the dialog is open
C26_Witness ==
    /\ pc = "tick"
    /\ frame.drawn
    /\ ~redraw
    /\ dialog_open
    /\ lines = <<>>

\* C27: the line buffer is append-only: over every step the buffer before is
\* a prefix of the buffer after, a loop iteration appends at most one line
\* (only the step that ends it appends, and one line), the lines are appended
\* in the order the source delivers them, and no key event changes the
\* buffer.
C27_BufferAppendOnly ==
    [][/\ Len(lines') >= Len(lines)
       /\ SubSeq(lines', 1, Len(lines)) = lines
       /\ Len(lines') <= Len(lines) + 1
       /\ lines' # lines =>
             /\ pc = "events" /\ pc' = "tick"
             /\ lines'[Len(lines')] = Feed(Len(lines'))
       /\ KeyStep => lines' = lines]_vars

\* three lines have arrived and the frame drawn for the third shows all of
\* them, in the order of the source
C27_Witness ==
    /\ pc = "tick"
    /\ frame.drawn
    /\ frame.total = 3
    /\ lines = <<Feed(1), Feed(2), Feed(3)>>

(***************************************************************************)
(* Properties of the pattern colours (SpecColor).                          *)
(***************************************************************************)
Palette(i) == PATTERN_COLORS[(i % 10) + 1]

\* C28: the colour of a pattern is PALETTE[index mod 10] of its current list
\* position, in the highlighted matches and in the dialog rows alike: in
\* every frame drawn the row of position i and every byte its pattern
\* matches have that colour, positions i and i + 10 have the same colour,
\* and so after a deletion at k the pattern that was at j > k, now at j - 1,
\* has PALETTE[(j - 1) mod 10].
C28_ColourOfPosition ==
    (pc = "tick" /\ frame.drawn) =>
        LET n == Len(patterns)
            fg == [b \in 1..Len(hl_line) |-> ByteStyles(hl_out.spans, 1)[b].fg]
        IN  /\ Len(PATTERN_COLORS) = 10
            /\ Len(dialog_rows) = n
            /\ \A i \in 0..(n - 1) :
                  /\ dialog_rows[i + 1].text = patterns[i + 1].pattern
                  /\ dialog_rows[i + 1].fg = Palette(i)
                  /\ i + 10 < n => dialog_rows[i + 11].fg = dialog_rows[i + 1].fg
                  /\ \A b \in 1..Len(hl_line) :
                        <<hl_line[b]>> = patterns[i + 1].pattern => fg[b] = Palette(i)

\* "a" was deleted from twelve patterns: "b", which was at position 1, is at
\* 0 and Red, "l", which was at 11, is at 10 and Red too, in the dialog and
\* in the line
C28_Witness ==
    /\ pc = "tick"
    /\ frame.drawn
    /\ last = NoKey
    /\ Len(patterns) = 11
    /\ patterns[1].pattern = <<"b">>
    /\ patterns[11].pattern = <<"l">>
    /\ dialog_rows[1].fg = "Red"
    /\ dialog_rows[11].fg = "Red"
    /\ ByteStyles(hl_out.spans, 1)[2].fg = "Red"
    /\ ByteStyles(hl_out.spans, 1)[12].fg = "Red"
    /\ ByteStyles(hl_out.spans, 1)[1].fg = "None"

(***************************************************************************)
(* Properties of the routing of key events (SpecDialog, SpecRouting).      *)
(***************************************************************************)
\* the inputs of the open dialog that its transition table does not list
Unlisted(key) ==
    \/ key.code \in {"Left", "Right", "Delete"} /\ selected = Len(patterns)
    \/ key.code \in CharCodes /\ "CONTROL" \in key.modifiers /\ key.code # "c"
    \/ key.code \notin (CharCodes \cup {"Esc", "Enter", "Up", "Down", "Left",
                                        "Right", "Delete", "Backspace"})

\* C30: in the open dialog every input that the transition table does not
\* list (Left, Right or Delete with selected = patterns.len(), a character
\* key with Control other than Ctrl-C, any other key code) changes none of
\* dialog_open, input, selected, error, the pattern list, scroll and follow,
\* and does not exit.
C30_UnlistedInputIgnored ==
    [][(DialogKeyStep /\ Unlisted(last'))
         => /\ UNCHANGED <<dialog_open, input, selected, pattern_error, patterns,
                           scroll, follow>>
            /\ pc' = "events"]_vars

\* Ctrl-A was handled with the selection on the first of two patterns and
\* "a" in the input: nothing was appended and the selection did not move
C30_Witness ==
    /\ AfterDialogKey
    /\ last = Key("a", {"CONTROL"})
    /\ input = <<"a">>
    /\ selected = 0
    /\ Len(patterns) = 2

\* C29: the handler of a key event is chosen on the dialog state at that
\* event.  While the dialog is open no key event changes scroll, follow or
\* wrap, and q, j, k, g, G, w, p are appended to the input and do not act.
\* While it is closed no key event changes the pattern list, and none but p,
\* which opens the dialog, changes the input or the error.  A key that
\* follows p within the same tick (p is the key handled last and the input
\* is still empty) is handled by the dialog.
C29_RoutingPerEvent ==
    [][/\ (KeyStep /\ dialog_open)
           => /\ UNCHANGED <<scroll, follow, wrap>>
              /\ last'.code \in RoutedChars
                    => /\ input' = Append(input, last'.code)
                       /\ dialog_open' = TRUE
                       /\ pc' = "events"
       /\ (KeyStep /\ ~dialog_open)
           => /\ patterns' = patterns
              /\ IF last'.code = "p"
                 THEN dialog_open' = TRUE
                 ELSE UNCHANGED <<input, pattern_error, dialog_open>>
       /\ (KeyStep /\ last = Key("p", {}) /\ dialog_open /\ input = <<>>)
           => /\ UNCHANGED <<scroll, follow, wrap>>
              /\ last'.code \in RoutedChars => input' = <<last'.code>>
              /\ (last'.code = "Delete" /\ patterns # <<>>)
                    => Len(patterns') = Len(patterns) - 1]_vars

\* j was handled by the open dialog: it is the input, and the view still
\* follows, unwrapped, as at the start
C29_Witness ==
    /\ AfterDialogKey
    /\ last = Key("j", {})
    /\ input = <<"j">>
    /\ follow
    /\ scroll = 0
    /\ ~wrap


(***************************************************************************)
(* Properties of the view in a terminal of fixed height (SpecFixedHeight). *)
(***************************************************************************)
\* the start of the window ui would draw now (ui.rs:44-51)
EffectiveStart ==
    window_start(follow, scroll, max_start(TotalLines, SatSub(term_height, 2)))

\* C31: with a fixed view height and an append-only line buffer, scroll <=
\* max_start(total, height) in every reachable state, whatever keys are
\* pressed and whenever lines arrive; and so, while follow is false, the
\* arrival of a line leaves the effective start where it was: the frame drawn
\* for the new line starts at the same line, which is scroll.
C31_ScrollWithinMaxStart ==
    /\ [](scroll <= max_start(TotalLines, SatSub(term_height, 2)))
    /\ [][(lines' # lines /\ ~follow)
            => /\ EffectiveStart' = EffectiveStart
               /\ frame'.drawn
               /\ frame'.start = scroll]_vars

\* a line has arrived, with no key pressed in its iteration, while the view
\* was scrolled back to a line above the bottom: the frame drawn starts at
\* scroll, below the new max_start
C31_Witness ==
    /\ pc = "tick"
    /\ frame.drawn
    /\ ~redraw /\ ~dialog_open
    /\ ~follow
    /\ scroll > 0
    /\ frame.start = scroll
    /\ frame.start < frame.max_start
    /\ frame.total = TotalLines

(***************************************************************************)
(* Properties of the view in a terminal that may be resized (Spec).        *)
(***************************************************************************)
\* C32: whenever follow is false and the effective start is above 0, one
\* line-up key lowers the effective start by exactly 1, also after the view
\* height, and with it max_start, has changed since the key before: an Up
\* press is never without a visible effect because of the stored scroll.
C32_LineUpMovesByOne ==
    [][(MainKeyStep /\ last'.code \in {"Up", "k"} /\ ~follow /\ EffectiveStart > 0)
         => EffectiveStart' = EffectiveStart - 1]_vars

(***************************************************************************)
(* Properties of repeated line-down presses (SpecLineDown).                *)
(***************************************************************************)
\* this step handles one line-down key
LineDownStep == MainKeyStep /\ last'.code \in {"Down", "j"} /\ redraw'

\* the presses the claim allows until follow is on, and the presses needed
PressesClaimed == IF follow THEN 0 ELSE CurrentMaxStart - scroll + 1
PressesLeft == IF follow THEN 0 ELSE SatSub(CurrentMaxStart, scroll) + 1

\* C33 as stated: from any main-mode state with total > 0, total and height
\* fixed, repeated line-down presses eventually set follow = true, after at
\* most max_start - scroll + 1 presses (while follow is off at least one
\* press is left of that number, and every press uses one up), and follow
\* then stays true under further line-down presses and line arrivals.
C33_FollowWithinClaimedPresses ==
    /\ <>[]follow
    /\ [](~follow => PressesClaimed >= 1)
    /\ [][LineDownStep => PressesClaimed' <= Max(0, PressesClaimed - 1)]_vars
    /\ [][follow => follow']_vars

\* C33, with the number of presses that holds: repeated line-down presses
\* eventually set follow = true, after at most max(0, max_start - scroll) + 1
\* presses (one press when the stored scroll is at or beyond max_start), and
\* follow then stays true under further line-down presses and line arrivals.
C33_FollowWithinPresses ==
    /\ <>[]follow
    /\ [](~follow => PressesLeft >= 1)
    /\ [][LineDownStep => PressesLeft' <= Max(0, PressesLeft - 1)]_vars
    /\ [][follow => follow']_vars

\* follow has been switched on by a line-down press at the bottom of more
\* lines than the window shows, and a line that arrived after that was drawn
\* with the view still following
C33_Witness ==
    /\ pc = "tick"
    /\ follow
    /\ frame.drawn
    /\ frame.total = TotalLines
    /\ frame.start = frame.max_start
    /\ frame.max_start >= 2
    /\ scroll < frame.max_start
    /\ scroll > 0

(***************************************************************************)
(* Properties of highlight_line with empty matches (SpecHLEmpty).          *)
(***************************************************************************)
\* every match find_iter reports for a pattern of the list, empty ones too
HlMatches ==
    UNION {LET mats == find_iter(hl_patterns[n + 1].regex, HlPlain, 0)
           IN  {[start |-> mats[i].start, end |-> mats[i].end, index |-> n] :
                   i \in 1..Len(mats)} :
           n \in 0..(Len(hl_patterns) - 1)}
HlNonEmptyMatches == {m \in HlMatches : m.start < m.end}

\* C34: in the output of highlight_line a byte of the plain text is given a
\* pattern colour if and only if it lies inside at least one non-empty match
\* of some pattern: a matched byte has the colour of a pattern whose match
\* covers it, whatever its base foreground was, an unmatched byte keeps its
\* base foreground, and empty matches produce no span: no output span is
\* empty, and a line with none but empty matches comes back as the base line.
C34_ColouredIffMatched ==
    HlDone =>
        LET out == ByteStyles(hl_out.spans, 1)
            base == ByteStyles(HlBase.spans, 1)
        IN  /\ Len(out) = Len(base)
            /\ \A b \in HlBytes :
                  LET cover == {m \in HlNonEmptyMatches : Covers(m, b)}
                  IN  /\ cover # {} =>
                            out[b + 1].fg \in {pattern_color(m.index) : m \in cover}
                      /\ cover = {} => out[b + 1].fg = base[b + 1].fg
            /\ \A i \in 1..Len(hl_out.spans) : hl_out.spans[i].content # <<>>
            /\ HlNonEmptyMatches = {} => hl_out = HlBase

\* the empty pattern has empty matches all over a line in which a second
\* pattern matches: the byte the second pattern matches has its colour, not
\* the base foreground, and a byte next to it kept its base foreground
C34_Witness ==
    /\ HlDone
    /\ \E m \in HlMatches : m.start = m.end /\ m.index = 0 /\ m.start > 0
    /\ LET out == ByteStyles(hl_out.spans, 1)
           base == ByteStyles(HlBase.spans, 1)
       IN  \E b, c \in HlBytes :
              /\ \E m \in HlNonEmptyMatches : Covers(m, b) /\ m.index = 1
              /\ out[b + 1].fg = pattern_color(1)
              /\ base[b + 1].fg = "None"
              /\ \A m \in HlNonEmptyMatches : ~Covers(m, c)
              /\ out[c + 1].fg = base[c + 1].fg
              /\ out[c + 1].fg = "None"

(***************************************************************************)
(* Properties of the startup (SpecStartup).                                *)
(***************************************************************************)
\* the pattern run builds from an argument of the command line
StartPattern(text) ==
    [pattern |-> text,
     case_sensitive |-> ~ignore_case,
     regex |-> [literal |-> text, case_insensitive |-> ignore_case]]

\* some pattern of the command line still to build does not compile
SomeArgFails ==
    \E i \in 1..Len(args_rest) : ~Compiles(args_rest[i], ~ignore_case)

\* C35: at startup the patterns of the command line are added in
\* command-line order (every step of the loop appends the first argument
\* left, so the texts built and the arguments left are the command line
\* throughout), each with case_sensitive = !ignore_case; if one of them does
\* not compile, run returns the error from the loop, and as long as such an
\* argument is ahead or has ended the run, the terminal is untouched (raw
\* mode and the alternate screen never entered), no key event has been
\* handled, no line read and no frame drawn.
C35_StartupPatterns ==
    /\ [][(pc = "build" /\ args_rest # <<>>)
            => IF Compiles(Head(args_rest), ~ignore_case)
               THEN /\ patterns' = Append(patterns, StartPattern(Head(args_rest)))
                    /\ args_rest' = Tail(args_rest)
                    /\ pc' = "build"
               ELSE /\ pc' = "returned_err"
                    /\ patterns' = patterns
                    /\ terminal' = TermUntouched]_vars
    /\ [](pc = "term_init" =>
            /\ args_rest = <<>>
            /\ terminal = TermUntouched
            /\ \A i \in 1..Len(patterns) :
                  patterns[i] = StartPattern(patterns[i].pattern))
    /\ [](SomeArgFails =>
            /\ pc \in {"build", "returned_err"}
            /\ terminal = TermUntouched
            /\ last = NoKey /\ ~redraw
            /\ lines = <<>> /\ ~frame.drawn)
    /\ [](pc \notin {"build", "returned_err"} => args_rest = <<>>)

\* the first pattern of the command line was built and added, the second
\* does not compile: run has returned the error with the terminal untouched
C35_Witness ==
    /\ pc = "returned_err"
    /\ Len(patterns) = 1
    /\ patterns[1] = StartPattern(<<"a">>)
    /\ args_rest # <<>>
    /\ ~Compiles(Head(args_rest), ~ignore_case)
    /\ terminal = TermUntouched
    /\ last = NoKey

=============================================================================
